---- MODULE Spec2Model ----
(***************************************************************************)
(* A model of sku_dupe_finder/core.py: normalize_sku, find_sku_columns,    *)
(* analyze and write_report.                                               *)
(*                                                                         *)
(* Text is a sequence of one-character strings, so that trimming, quote    *)
(* stripping, case mapping, regular-expression search and ordering are     *)
(* computed on characters as Python computes them.  NaN and None are the   *)
(* one-element sequences <<"NaN">> and <<"None">>, which no text equals    *)
(* (every element of a text is a single character).                        *)
(***************************************************************************)
EXTENDS Integers, Sequences, FiniteSets, TLC

VARIABLES
    pc,                             \* position of the modelled call
    val, normalized,                \* normalize_sku: argument and result
    df, sku_cols, patterns, detected,
                                    \* find_sku_columns: table, explicit_cols,
                                    \* patterns and result
    files, corrupt, only_across_workbooks, fi,
                                    \* analyze: input list, unreadable paths,
                                    \* policy flag, index of the next file
    details_rows, sku_col_map, read_errors,
                                    \* analyze: the three accumulators
    presence_counts, presence_bool, \* analyze: crosstab and boolean matrix
    dup_index, details_dups         \* write_report: qualifying SKUs, Details

vars == <<pc, val, normalized, df, sku_cols, patterns, detected,
          files, corrupt, only_across_workbooks, fi,
          details_rows, sku_col_map, read_errors,
          presence_counts, presence_bool, dup_index, details_dups>>

varsScan == <<files, corrupt, only_across_workbooks, fi,
              details_rows, sku_col_map, read_errors,
              presence_counts, presence_bool, dup_index, details_dups>>

-----------------------------------------------------------------------------
(* Bounds of the checked instances *)

MaxLen == 4          \* longest cell text given to normalize_sku
MaxCols == 3         \* most columns of a table given to find_sku_columns
MaxRuns == 2         \* runs of equal cells in the fallback column
MaxFiles == 3        \* longest input list of analyze
MaxRecs == 3         \* longest Record list given to write_report

-----------------------------------------------------------------------------
(* Python values and str methods *)

NaN == <<"NaN">>
None == <<"None">>

\* An optional list argument (List[str] | None): None is NoList, a list l is
\* Some(l).  truthy is Python's truth value of the argument.
NoList == [some |-> FALSE, items |-> <<>>]
Some(l) == [some |-> TRUE, items |-> l]
truthy(l) == l.some /\ l.items # <<>>

DQ == "\""
SQ == "'"
WS == {" ", "\t"}
Digits == {"0", "1", "2", "3", "4", "5", "6", "7", "8", "9"}

UpperChars == <<"A","B","C","D","E","F","G","H","I","J","K","L","M",
                "N","O","P","Q","R","S","T","U","V","W","X","Y","Z">>
LowerChars == <<"a","b","c","d","e","f","g","h","i","j","k","l","m",
                "n","o","p","q","r","s","t","u","v","w","x","y","z">>

Range(s) == {s[k] : k \in 1..Len(s)}

\* str.upper / str.lower on one character
upper_char(c) ==
    IF \E k \in 1..26 : LowerChars[k] = c
    THEN UpperChars[CHOOSE k \in 1..26 : LowerChars[k] = c] ELSE c
lower_char(c) ==
    IF \E k \in 1..26 : UpperChars[k] = c
    THEN LowerChars[CHOOSE k \in 1..26 : UpperChars[k] = c] ELSE c

str_upper(s) == [k \in 1..Len(s) |-> upper_char(s[k])]
str_lower(s) == [k \in 1..Len(s) |-> lower_char(s[k])]

RECURSIVE lstrip(_, _)
lstrip(s, cs) ==
    IF s = <<>> \/ Head(s) \notin cs THEN s ELSE lstrip(Tail(s), cs)

RECURSIVE rstrip(_, _)
rstrip(s, cs) ==
    IF s = <<>> \/ s[Len(s)] \notin cs THEN s
    ELSE rstrip(SubSeq(s, 1, Len(s) - 1), cs)

\* str.strip(chars): every leading and every trailing character in cs goes
str_strip(s, cs) == rstrip(lstrip(s, cs), cs)

\* re.sub(r"\s+", " ", s)
RECURSIVE re_sub_ws(_)
re_sub_ws(s) ==
    IF s = <<>> THEN <<>>
    ELSE IF Head(s) \in WS THEN <<" ">> \o re_sub_ws(lstrip(s, WS))
    ELSE <<Head(s)>> \o re_sub_ws(Tail(s))

\* str.isdigit
isdigit(s) == s # <<>> /\ \A k \in 1..Len(s) : s[k] \in Digits

\* s.replace('.', '', 1)
replace_first_dot(s) ==
    IF \E k \in 1..Len(s) : s[k] = "."
    THEN LET d == CHOOSE k \in 1..Len(s) :
                      s[k] = "." /\ \A j \in 1..(k - 1) : s[j] # "."
         IN SubSeq(s, 1, d - 1) \o SubSeq(s, d + 1, Len(s))
    ELSE s

-----------------------------------------------------------------------------
(* normalize_sku *)

isna(v) == v = NaN

\* line 23, for the str cells that read_excel(dtype=str) delivers
numeric_looking(v) == isdigit(replace_first_dot(str_strip(v, WS)))

\* lines 24-25: float(val), then str(int(f)) or str(f).  Exact for the digit
\* strings of the checked lengths (fewer than 16 digits, no exponent form).
float_str(v) ==
    LET t == str_strip(v, WS)
        hasdot == \E k \in 1..Len(t) : t[k] = "."
        d == IF hasdot THEN CHOOSE k \in 1..Len(t) : t[k] = "." ELSE 0
        ip == lstrip(IF hasdot THEN SubSeq(t, 1, d - 1) ELSE t, {"0"})
        fp == rstrip(IF hasdot THEN SubSeq(t, d + 1, Len(t)) ELSE <<>>, {"0"})
        int_digits == IF ip = <<>> THEN <<"0">> ELSE ip
    IN IF fp = <<>> THEN int_digits ELSE int_digits \o <<".">> \o fp

SkuSentinels ==
    { <<>>, <<"N","/","A">>, <<"N","A">>, <<"N","O","N","E">>,
      <<"N","U","L","L">>, <<"-">> }

\* A quote strip that removes only one matching outermost pair
strip_quotes_one_pair(s) ==
    IF Len(s) >= 2 /\ s[1] = s[Len(s)] /\ s[1] \in {DQ, SQ}
    THEN SubSeq(s, 2, Len(s) - 1) ELSE s

\* line 30, the two quote strips: s.strip('"').strip("'")
strip_quotes(s) == str_strip(str_strip(s, {DQ}), {SQ})

\* lines 28-30
clean_text(v) ==
    str_upper(strip_quotes(str_strip(re_sub_ws(str_strip(v, WS)), WS)))

normalize_sku(v) ==
    IF isna(v) THEN None
    ELSE LET x == IF numeric_looking(v) THEN float_str(v) ELSE v
             s == clean_text(x)
         IN IF s \in SkuSentinels THEN None ELSE s

-----------------------------------------------------------------------------
(* Specification SpecNorm: normalize_sku applied to one cell *)

NormChars == {"a", "-", "1", ".", " ", "\t", DQ, SQ}
Texts(cs, n) == UNION {[1..m -> cs] : m \in 0..n}

IdleNorm == val = NaN /\ normalized = None

IdleDetect == df = <<>> /\ detected = <<>>

IdleInputs == sku_cols = NoList /\ patterns = NoList

IdleScan ==
    /\ files = <<>> /\ corrupt = {} /\ only_across_workbooks = TRUE /\ fi = 1
    /\ details_rows = <<>> /\ sku_col_map = <<>> /\ read_errors = <<>>
    /\ presence_counts = <<>> /\ presence_bool = <<>>
    /\ dup_index = {} /\ details_dups = <<>>

InitNorm ==
    /\ pc = "start"
    /\ val \in Texts(NormChars, MaxLen) \cup {NaN}
    /\ normalized = None
    /\ IdleDetect /\ IdleInputs /\ IdleScan

Normalize ==
    /\ pc = "start"
    /\ normalized' = normalize_sku(val)
    /\ pc' = "done"
    /\ UNCHANGED <<val, df, sku_cols, patterns, detected>>
    /\ UNCHANGED varsScan

NextNorm == Normalize

SpecNorm == InitNorm /\ [][NextNorm]_vars

-----------------------------------------------------------------------------
(* Claim C10 *)

\* Number of leading / trailing occurrences of the character ch in s
LeadCount(s, ch) ==
    CHOOSE k \in 0..Len(s) :
        /\ \A j \in 1..k : s[j] = ch
        /\ (k = Len(s) \/ s[k + 1] # ch)
TrailCount(s, ch) ==
    CHOOSE k \in 0..Len(s) :
        /\ \A j \in (Len(s) - k + 1)..Len(s) : s[j] = ch
        /\ (k = Len(s) \/ s[Len(s) - k] # ch)

\* s without its leading occurrences of ch, then without the trailing ones
WithoutOuter(s, ch) ==
    LET r == SubSeq(s, LeadCount(s, ch) + 1, Len(s))
    IN SubSeq(r, 1, Len(r) - TrailCount(r, ch))

\* whitespace runs collapsed to one space, then trimmed
Squeezed(v) == str_strip(re_sub_ws(v), WS)

AbsentIfSentinel(s) == IF s \in SkuSentinels THEN None ELSE s

NonNumericText(v) == v # NaN /\ ~numeric_looking(v)

\* C10 as stated: for every non-numeric text input, normalize_sku collapses
\* whitespace runs, trims, removes quote characters only as ONE MATCHING
\* outermost pair, and uppercases; an unmatched leading or trailing quote and
\* a second nested pair stay in the result.
C10_AsStated ==
    (pc = "done" /\ NonNumericText(val)) =>
        normalized =
            AbsentIfSentinel(str_upper(strip_quotes_one_pair(Squeezed(val))))

\* C10 amended: for every non-numeric text input, normalize_sku collapses
\* whitespace runs and trims, then removes EVERY leading and trailing
\* double-quote character and then EVERY leading and trailing single-quote
\* character, matched or not, and uppercases; the result is absent when what
\* is left is a sentinel.
C10_StripsAllOuterQuotes ==
    (pc = "done" /\ NonNumericText(val)) =>
        normalized =
            AbsentIfSentinel(
                str_upper(WithoutOuter(WithoutOuter(Squeezed(val), DQ), SQ)))

\* An unmatched leading double quote and an unmatched trailing single quote
\* have both been removed.
C10_Witness ==
    /\ pc = "done"
    /\ val = <<DQ, DQ, "a", SQ>>
    /\ normalized = <<"A">>

-----------------------------------------------------------------------------
(* Regular expressions of DEFAULT_SKU_COL_PATTERNS, searched with           *)
(* re.IGNORECASE.  A pattern is a record [rx, a, b]:                        *)
(*   rx = "word"  \ba\b             rx = "two"   \ba\s*b\b                  *)
(*   rx = "item"  \bitem\b(?!\s*name)                                       *)
(*   rx = "part"  \bpart\s*(?:no|number)?\b                                 *)
(*   rx = "lit"   the plain text a (a custom pattern without               *)
(*                metacharacters)                                           *)
(* a and b are lower-case texts.                                            *)

T_sku == <<"s","k","u">>
T_item == <<"i","t","e","m">>
T_code == <<"c","o","d","e">>
T_name == <<"n","a","m","e">>
T_part == <<"p","a","r","t">>
T_no == <<"n","o">>
T_number == <<"n","u","m","b","e","r">>
T_material == <<"m","a","t","e","r","i","a","l">>
T_product == <<"p","r","o","d","u","c","t">>
T_stock == <<"s","t","o","c","k">>
T_style == <<"s","t","y","l","e">>

Rx(kind, a, b) == [rx |-> kind, a |-> a, b |-> b]

DEFAULT_SKU_COL_PATTERNS ==
    << Rx("word", T_sku, <<>>),
       Rx("two", T_item, T_code),
       Rx("item", <<>>, <<>>),
       Rx("part", <<>>, <<>>),
       Rx("two", T_material, T_code),
       Rx("two", T_product, T_code),
       Rx("two", T_stock, T_code),
       Rx("two", T_style, T_code) >>

\* \w
is_word_char(c) ==
    c \in Range(UpperChars) \cup Range(LowerChars) \cup Digits \cup {"_"}

\* \b before position p of s (p in 1..Len(s)+1)
word_boundary(s, p) ==
    LET before == p > 1 /\ is_word_char(s[p - 1])
        after == p <= Len(s) /\ is_word_char(s[p])
    IN before # after

\* the lower-case text w at position p of s, ignoring the case of s
lit_at(s, p, w) ==
    /\ p >= 1 /\ p + Len(w) - 1 <= Len(s)
    /\ \A k \in 1..Len(w) : lower_char(s[p + k - 1]) = w[k]

\* \s* consuming exactly the k characters from position p
ws_run(s, p, k) ==
    /\ p + k - 1 <= Len(s)
    /\ \A j \in p..(p + k - 1) : s[j] \in WS

\* rx.search(col)
rx_search(rx, s) ==
    \E p \in 1..(Len(s) + 1) :
        CASE rx.rx = "word" ->
                /\ word_boundary(s, p) /\ lit_at(s, p, rx.a)
                /\ word_boundary(s, p + Len(rx.a))
          [] rx.rx = "two" ->
                /\ word_boundary(s, p) /\ lit_at(s, p, rx.a)
                /\ \E k \in 0..Len(s) :
                      /\ ws_run(s, p + Len(rx.a), k)
                      /\ lit_at(s, p + Len(rx.a) + k, rx.b)
                      /\ word_boundary(s, p + Len(rx.a) + k + Len(rx.b))
          [] rx.rx = "item" ->
                /\ word_boundary(s, p) /\ lit_at(s, p, T_item)
                /\ word_boundary(s, p + 4)
                /\ ~ \E k \in 0..Len(s) :
                        ws_run(s, p + 4, k) /\ lit_at(s, p + 4 + k, T_name)
          [] rx.rx = "part" ->
                /\ word_boundary(s, p) /\ lit_at(s, p, T_part)
                /\ \E k \in 0..Len(s) :
                      /\ ws_run(s, p + 4, k)
                      /\ \/ word_boundary(s, p + 4 + k)
                         \/ /\ lit_at(s, p + 4 + k, T_no)
                            /\ word_boundary(s, p + 4 + k + 2)
                         \/ /\ lit_at(s, p + 4 + k, T_number)
                            /\ word_boundary(s, p + 4 + k + 6)
          [] rx.rx = "lit" -> lit_at(s, p, rx.a)

\* _compile_patterns
compile_patterns(pats) ==
    IF ~truthy(pats) THEN DEFAULT_SKU_COL_PATTERNS ELSE pats.items

-----------------------------------------------------------------------------
(* find_sku_columns.  A table df is [columns |-> names, data |-> one        *)
(* sequence of cells per column]; cells are texts or NaN (dtype=str).       *)

SampleSize == 50

\* line 108 of analyze and line 42
strip_columns(columns) ==
    [k \in 1..Len(columns) |-> str_strip(columns[k], WS)]

\* df[name] for a table whose column names are distinct
column_data(t, name) ==
    t.data[CHOOSE k \in 1..Len(t.columns) : t.columns[k] = name]

\* Series.head(n)
head(series, n) == SubSeq(series, 1, IF Len(series) < n THEN Len(series) ELSE n)

\* str.contains(r"[A-Za-z0-9]") on one value
contains_alnum(v) ==
    \E k \in 1..Len(v) :
        v[k] \in Range(UpperChars) \cup Range(LowerChars) \cup Digits

RECURSIVE count_true(_)
count_true(bs) ==
    IF bs = <<>> THEN 0
    ELSE (IF Head(bs) THEN 1 ELSE 0) + count_true(Tail(bs))

\* line 57: df[first_col].dropna().astype(str).head(50)
sample_series(t, first_col) ==
    head(SelectSeq(column_data(t, first_col), LAMBDA v : ~isna(v)), SampleSize)

\* line 58: the mean of the booleans as the fraction num/den, 0 when empty
alnum_ratio(sample) ==
    IF Len(sample) > 0
    THEN [num |-> count_true([k \in 1..Len(sample) |-> contains_alnum(sample[k])]),
          den |-> Len(sample)]
    ELSE [num |-> 0, den |-> 1]

\* a fraction compared with 0.5, with >= in place of >
ratio_at_least_half(r) == 2 * r.num >= r.den

\* line 59: alnum_ratio > 0.5
ratio_gt_half(r) == 2 * r.num > r.den

\* a de-duplication that keeps everything
dedupe_keep_all(candidates) == candidates

\* lines 61-68
RECURSIVE dedupe_from(_, _, _)
dedupe_from(candidates, seen, out) ==
    IF candidates = <<>> THEN out
    ELSE LET c == Head(candidates)
             lc == str_lower(c)
         IN IF lc \notin seen
            THEN dedupe_from(Tail(candidates), seen \cup {lc}, Append(out, c))
            ELSE dedupe_from(Tail(candidates), seen, out)

dedupe(candidates) == dedupe_from(candidates, {}, <<>>)

\* lines 47-53
pattern_candidates(cols, pats) ==
    LET regexes == compile_patterns(pats)
    IN SelectSeq(cols, LAMBDA col :
           \E k \in 1..Len(regexes) : rx_search(regexes[k], col))

\* lines 54-60
fallback_candidates(t, cols) ==
    LET first_col == cols[1]
    IN IF ratio_gt_half(alnum_ratio(sample_series(t, first_col)))
       THEN <<first_col>> ELSE <<>>

\* lines 43-45 with the patterns consulted when no explicit column is found
explicit_or_patterns(t, cols, explicit_cols, pats) ==
    LET wanted == {str_lower(str_strip(c, WS)) : c \in Range(explicit_cols.items)}
        hit == SelectSeq(cols, LAMBDA c : str_lower(c) \in wanted)
    IN IF hit # <<>> THEN hit ELSE dedupe(pattern_candidates(cols, pats))

\* lines 43-45
explicit_columns(t, cols, explicit_cols, pats) ==
    LET wanted == {str_lower(str_strip(c, WS)) : c \in Range(explicit_cols.items)}
    IN SelectSeq(cols, LAMBDA c : str_lower(c) \in wanted)

find_sku_columns(t, explicit_cols, pats) ==
    LET cols == strip_columns(t.columns)
    IN IF truthy(explicit_cols)
       THEN explicit_columns(t, cols, explicit_cols, pats)
       ELSE LET matched == pattern_candidates(cols, pats)
                candidates == IF matched = <<>>
                              THEN fallback_candidates(t, cols)
                              ELSE matched
            IN dedupe(candidates)

\* analyze line 108: df.columns = [str(c).strip() for c in df.columns]
with_stripped_columns(t) ==
    [columns |-> strip_columns(t.columns), data |-> t.data]

-----------------------------------------------------------------------------
(* Specifications SpecDetect and SpecFallback: find_sku_columns on one      *)
(* table, called as analyze calls it (lines 108-109)                        *)

N_SKU == <<"S","K","U">>
N_sku_padded == <<" ","s","k","u"," ">>
N_ItemCode == <<"I","t","e","m"," ","C","o","d","e">>
N_ItemName == <<"I","t","e","m"," ","N","a","m","e">>
N_Notes == <<"N","o","t","e","s">>
N_PartNo == <<"P","a","r","t"," ","N","o">>
N_Description == <<"D","e","s","c","r","i","p","t","i","o","n">>

C_A1 == <<"A","1">>
C_a1 == <<"a","1">>
C_dash == <<"-">>

DetectNames == {N_SKU, N_sku_padded, N_ItemCode, N_ItemName, N_Notes, N_PartNo}

Injective(q) == \A j, k \in 1..Len(q) : j # k => q[j] # q[k]

NameSeqs ==
    {cs \in UNION {[1..n -> DetectNames] : n \in 1..MaxCols} : Injective(cs)}

FirstColData == { <<C_a1, C_a1>>, <<C_dash, NaN>>, <<C_a1, C_dash>> }

DetectTables ==
    { [columns |-> cs,
       data |-> [k \in 1..Len(cs) |-> IF k = 1 THEN d ELSE <<C_a1, NaN>>]] :
      cs \in NameSeqs, d \in FirstColData }

ExplicitChoices ==
    { NoList, Some(<<>>), Some(<<N_Notes>>), Some(<<N_sku_padded>>),
      Some(<< <<"i","t","e","m"," ","c","o","d","e">>,
              <<"N","O","T","E","S"," ">> >>) }

PatternChoices ==
    { NoList, Some(<<>>),
      Some(<< Rx("lit", <<"n","o","t","e">>, <<>>) >>),
      Some(<< Rx("lit", <<"z","z","z">>, <<>>) >>) }

InitDetect ==
    /\ pc = "start"
    /\ df \in DetectTables
    /\ sku_cols \in ExplicitChoices
    /\ patterns \in PatternChoices
    /\ detected = <<>>
    /\ IdleNorm /\ IdleScan

\* the column of the fallback heuristic: runs of equal cells
RunCells == {NaN, C_a1, C_dash}
RunLengths == {1, SampleSize \div 2, SampleSize \div 2 + 1, SampleSize}
Runs == RunCells \X RunLengths

RECURSIVE Expand(_)
Expand(rs) ==
    IF rs = <<>> THEN <<>>
    ELSE [k \in 1..Head(rs)[2] |-> Head(rs)[1]] \o Expand(Tail(rs))

RunColumns == {Expand(rs) : rs \in UNION {[1..n -> Runs] : n \in 1..MaxRuns}}

FallbackTables ==
    { [columns |-> cs, data |-> [k \in 1..Len(cs) |-> d]] :
      cs \in { <<N_Description>>, <<N_Notes, N_Description>>, <<N_SKU>> },
      d \in RunColumns }

InitFallback ==
    /\ pc = "start"
    /\ df \in FallbackTables
    /\ sku_cols = NoList
    /\ patterns \in { NoList, Some(<< Rx("lit", <<"d","e","s","c">>, <<>>) >>) }
    /\ detected = <<>>
    /\ IdleNorm /\ IdleScan

Detect ==
    /\ pc = "start"
    /\ detected' = find_sku_columns(with_stripped_columns(df), sku_cols, patterns)
    /\ pc' = "done"
    /\ UNCHANGED <<val, normalized, df, sku_cols, patterns>>
    /\ UNCHANGED varsScan

NextDetect == Detect

SpecDetect == InitDetect /\ [][NextDetect]_vars

SpecFallback == InitFallback /\ [][NextDetect]_vars

-----------------------------------------------------------------------------
(* Claims C5, C7, C8 *)

\* equality of two texts ignoring case
CaseEq(a, b) ==
    Len(a) = Len(b) /\ \A k \in 1..Len(a) : upper_char(a[k]) = upper_char(b[k])

TrimmedNames == [k \in 1..Len(df.columns) |-> str_strip(df.columns[k], WS)]

RECURSIVE PickAscending(_, _)
PickAscending(names, S) ==
    IF S = {} THEN <<>>
    ELSE LET m == CHOOSE x \in S : \A y \in S : x <= y
         IN <<names[m]>> \o PickAscending(names, S \ {m})

ExplicitlyNamed ==
    { k \in 1..Len(df.columns) :
        \E e \in Range(sku_cols.items) :
            CaseEq(TrimmedNames[k], str_strip(e, WS)) }

\* C5: whenever explicit_cols is non-empty, the result is exactly the
\* table's columns whose trimmed name equals, ignoring case, one of the
\* trimmed explicit names, in the table's column order, whatever the patterns
\* and the first column's values are.
C5_ExplicitOnly ==
    (pc = "done" /\ truthy(sku_cols)) =>
        detected = PickAscending(TrimmedNames, ExplicitlyNamed)

\* columns [SKU, Item Code, Notes] with explicit [Notes] give exactly [Notes]
C5_Witness ==
    /\ pc = "done"
    /\ df.columns = <<N_SKU, N_ItemCode, N_Notes>>
    /\ sku_cols = Some(<<N_Notes>>)
    /\ detected = <<N_Notes>>

NoCaseDuplicate(q) ==
    \A j, k \in 1..Len(q) : j # k => ~CaseEq(q[j], q[k])

\* index of the first column whose trimmed name equals d ignoring case
FirstIndex(d) ==
    CHOOSE k \in 1..Len(df.columns) :
        /\ CaseEq(TrimmedNames[k], d)
        /\ \A j \in 1..(k - 1) : ~CaseEq(TrimmedNames[j], d)

KeepsFirstSeen(q) ==
    /\ \A k \in 1..Len(q) :
          /\ \E j \in 1..Len(df.columns) : CaseEq(TrimmedNames[j], q[k])
          /\ q[k] = TrimmedNames[FirstIndex(q[k])]
    /\ \A j, k \in 1..Len(q) :
          j < k => FirstIndex(q[j]) < FirstIndex(q[k])

\* C7 as stated: for every explicit_cols value, absent or non-empty, the
\* result holds no two names equal ignoring case and keeps the first-seen
\* occurrence of each name in column order.
C7_AsStated ==
    pc = "done" => (NoCaseDuplicate(detected) /\ KeepsFirstSeen(detected))

\* C7 amended: when explicit_cols is absent or empty, the result holds no two
\* names equal ignoring case and keeps the first-seen occurrence of each name
\* in column order (with explicit names every matching column is returned,
\* names equal ignoring case included).
C7_DedupWithoutExplicit ==
    (pc = "done" /\ ~truthy(sku_cols)) =>
        (NoCaseDuplicate(detected) /\ KeepsFirstSeen(detected))

\* two columns equal ignoring case matched the default patterns and one
\* name, the first seen, was kept
C7_Witness ==
    /\ pc = "done"
    /\ ~truthy(sku_cols)
    /\ df.columns = <<N_sku_padded, N_SKU>>
    /\ detected = <<T_sku>>

NoPatternMatch ==
    \A k \in 1..Len(df.columns) :
        \A r \in Range(compile_patterns(patterns)) :
            ~rx_search(r, TrimmedNames[k])

\* positions of the first column's non-absent cells, and the first
\* SampleSize of them
PresentCells == {k \in 1..Len(df.data[1]) : df.data[1][k] # NaN}
SampledCells ==
    {k \in PresentCells :
        Cardinality({j \in PresentCells : j <= k}) <= SampleSize}
AlnumSampled ==
    {k \in SampledCells :
        \E c \in Range(df.data[1][k]) : is_word_char(c) /\ c # "_"}

\* C8: without explicit names, when no column name matches an active
\* pattern, the result is the single first column if strictly more than half
\* of the first (up to) 50 non-absent values of that column contain an
\* alphanumeric character, and is empty otherwise; later values do not count.
C8_FallbackMajority ==
    (pc = "done" /\ ~truthy(sku_cols) /\ NoPatternMatch) =>
        detected = IF 2 * Cardinality(AlnumSampled) > Cardinality(SampledCells)
                   THEN <<TrimmedNames[1]>> ELSE <<>>

\* exactly half of the 50 sampled values qualify, the 50 values after them
\* would tip the balance, and nothing is detected
C8_Witness ==
    /\ pc = "done"
    /\ df.columns = <<N_Description>>
    /\ patterns = NoList
    /\ df.data[1] = Expand(<< <<C_dash, SampleSize \div 2>>, <<C_a1, SampleSize>> >>)
    /\ detected = <<>>

-----------------------------------------------------------------------------
(* analyze: the scan of one workbook (the body of the loop, lines 98-123)   *)

\* os.path.basename
basename(fp) ==
    LET slashes == {k \in 1..Len(fp) : fp[k] = "/"}
    IN IF slashes = {} THEN fp
       ELSE SubSeq(fp, (CHOOSE k \in slashes : \A j \in slashes : j <= k) + 1,
                   Len(fp))

\* RowNumber: int(idx) + 2, or None
Row(n) == [has |-> TRUE, n |-> n]
NoRowNumber == [has |-> FALSE, n |-> 0]

\* df.empty
df_empty(t) == Len(t.columns) = 0 \/ Len(t.data[1]) = 0

\* dict assignment d[k] = v
dict_set(d, k, v) == [x \in DOMAIN d \cup {k} |-> IF x = k THEN v ELSE d[x]]

\* lines 114-123 for one column: one row per cell whose normalized value is
\* truthy; idx runs over the RangeIndex 0..n-1 of read_excel
column_rows(t, file, sheet, col) ==
    LET series == [k \in 1..Len(column_data(t, col)) |->
                       normalize_sku(column_data(t, col)[k])]
        row(k) == [SKU |-> series[k], File |-> file, Sheet |-> sheet,
                   Column |-> col, RowNumber |-> Row((k - 1) + 2)]
        kept == SelectSeq([k \in 1..Len(series) |-> k],
                          LAMBDA k : series[k] # None /\ series[k] # <<>>)
    IN [j \in 1..Len(kept) |-> row(kept[j])]

RECURSIVE columns_rows(_, _, _, _)
columns_rows(t, file, sheet, cols) ==
    IF cols = <<>> THEN <<>>
    ELSE column_rows(t, file, sheet, Head(cols))
             \o columns_rows(t, file, sheet, Tail(cols))

\* lines 105-123 for one sheet; acc is [rows, colmap]
scan_sheet(acc, file, sheet, explicit_cols, pats) ==
    IF df_empty(sheet.table) THEN acc
    ELSE LET t == with_stripped_columns(sheet.table)
             cols == find_sku_columns(t, explicit_cols, pats)
         IN IF cols = <<>> THEN acc
            ELSE [rows |-> acc.rows \o columns_rows(t, file, sheet.name, cols),
                  colmap |-> dict_set(acc.colmap, <<file, sheet.name>>, cols)]

RECURSIVE scan_sheets(_, _, _, _, _)
scan_sheets(acc, file, sheets, explicit_cols, pats) ==
    IF sheets = <<>> THEN acc
    ELSE scan_sheets(scan_sheet(acc, file, Head(sheets), explicit_cols, pats),
                     file, Tail(sheets), explicit_cols, pats)

-----------------------------------------------------------------------------
(* analyze, lines 125-141: the presence matrices *)

RECURSIVE count_rows(_, _, _)
count_rows(rows, s, f) ==
    IF rows = <<>> THEN 0
    ELSE (IF Head(rows).SKU = s /\ Head(rows).File = f THEN 1 ELSE 0)
             + count_rows(Tail(rows), s, f)

\* a cross-tabulation that records presence (0 or 1) instead of the count
crosstab_presence(rows) ==
    [s \in {rows[k].SKU : k \in 1..Len(rows)} |->
        [f \in {rows[k].File : k \in 1..Len(rows)} |->
            IF count_rows(rows, s, f) > 0 THEN 1 ELSE 0]]

\* pd.crosstab(details_df["SKU"], details_df["File"]); <<>> is the empty frame
crosstab(rows) ==
    [s \in {rows[k].SKU : k \in 1..Len(rows)} |->
        [f \in {rows[k].File : k \in 1..Len(rows)} |-> count_rows(rows, s, f)]]

\* lines 134-135: presence_counts > 0, plus the WorkbooksCount column
bool_matrix(counts) ==
    [s \in DOMAIN counts |->
        [present |-> [f \in DOMAIN counts[s] |-> counts[s][f] > 0],
         WorkbooksCount |->
             Cardinality({f \in DOMAIN counts[s] : counts[s][f] > 0})]]

-----------------------------------------------------------------------------
(* write_report, lines 159-169 *)

\* code-point order of the characters used
AsciiOrder ==
    <<"\t", " ", DQ, SQ, "-", ".", "/">>
    \o <<"0","1","2","3","4","5","6","7","8","9">>
    \o UpperChars \o <<"_">> \o LowerChars

Ord(c) == CHOOSE k \in 1..Len(AsciiOrder) : AsciiOrder[k] = c

\* Python's a < b on str
RECURSIVE str_lt(_, _)
str_lt(a, b) ==
    IF b = <<>> THEN FALSE
    ELSE IF a = <<>> THEN TRUE
    ELSE IF Head(a) = Head(b) THEN str_lt(Tail(a), Tail(b))
    ELSE Ord(Head(a)) < Ord(Head(b))

\* RowNumber ascending, NaN last (na_position="last")
row_lt(a, b) == a.has /\ (~b.has \/ a.n < b.n)

\* the sort key without the Sheet column
key_lt_no_sheet(x, y) ==
    \/ str_lt(x.SKU, y.SKU)
    \/ /\ x.SKU = y.SKU
       /\ \/ str_lt(x.File, y.File)
          \/ /\ x.File = y.File
             /\ row_lt(x.RowNumber, y.RowNumber)

\* sort_values(["SKU", "File", "Sheet", "RowNumber"]): x sorts before y
key_lt(x, y) ==
    \/ str_lt(x.SKU, y.SKU)
    \/ /\ x.SKU = y.SKU
       /\ \/ str_lt(x.File, y.File)
          \/ /\ x.File = y.File
             /\ \/ str_lt(x.Sheet, y.Sheet)
                \/ /\ x.Sheet = y.Sheet
                   /\ row_lt(x.RowNumber, y.RowNumber)

\* the sort is stable: r goes behind every row that does not sort after it
RECURSIVE insert_sorted(_, _)
insert_sorted(sorted, r) ==
    IF sorted = <<>> THEN <<r>>
    ELSE IF key_lt(r, Head(sorted)) THEN <<r>> \o sorted
    ELSE <<Head(sorted)>> \o insert_sorted(Tail(sorted), r)

RECURSIVE sort_from(_, _)
sort_from(rows, sorted) ==
    IF rows = <<>> THEN sorted
    ELSE sort_from(Tail(rows), insert_sorted(sorted, Head(rows)))

sort_values(rows) == sort_from(rows, <<>>)

\* a selection that asks for cross-workbook presence whatever the flag is
select_cross_only(pbool, across) ==
    {s \in DOMAIN pbool : pbool[s].WorkbooksCount > 1}

\* lines 160-167: dup_index
select_dup_index(pbool, across) ==
    IF across
    THEN {s \in DOMAIN pbool : pbool[s].WorkbooksCount > 1}
    ELSE DOMAIN pbool

\* line 169: details_dups
select_details(rows, index) ==
    sort_values(SelectSeq(rows, LAMBDA r : r.SKU \in index))

-----------------------------------------------------------------------------
(* Specification Spec: analyze over a list of workbooks, then write_report. *)
(* What pd.read_excel returns for each path is the workbook on disk: a      *)
(* sequence of sheets [name, table]; the paths in corrupt raise instead.    *)

P_aW1 == <<"a","/","W","1",".","x","l","s","x">>
P_bW1 == <<"b","/","W","1",".","x","l","s","x">>
P_aW2 == <<"a","/","W","2",".","x","l","s","x">>
P_aW3 == <<"a","/","W","3",".","x","l","s","x">>

F_W1 == <<"W","1",".","x","l","s","x">>
F_W2 == <<"W","2",".","x","l","s","x">>

S_Sheet1 == <<"S","h","e","e","t","1">>
S_Empty == <<"E","m","p","t","y">>
S_Memo == <<"M","e","m","o">>
S_Parts == <<"P","a","r","t","s">>

Paths == {P_aW1, P_bW1, P_aW2, P_aW3}

Sheet(name, columns, data) ==
    [name |-> name, table |-> [columns |-> columns, data |-> data]]

\* a/W1.xlsx: Sheet1, column SKU = [A1, A2, A1]
\* a/W2.xlsx: Sheet1, column Item Code = [A1, B1]
\* b/W1.xlsx: Sheet1, columns " sku " = [a2, C3] and Notes = [x, NaN]
\* a/W3.xlsx: Empty (a header, no rows), Memo (Notes = [-, --]) and
\*            Parts (Part No = [B1, n/a, NaN, " b1 "], Item Name = [x, y, z, w])
read_excel(fp) ==
    CASE fp = P_aW1 ->
            << Sheet(S_Sheet1, <<N_SKU>>, << <<C_A1, <<"A","2">>, C_A1>> >>) >>
      [] fp = P_aW2 ->
            << Sheet(S_Sheet1, <<N_ItemCode>>, << <<C_A1, <<"B","1">>>> >>) >>
      [] fp = P_bW1 ->
            << Sheet(S_Sheet1, <<N_sku_padded, N_Notes>>,
                     << <<<<"a","2">>, <<"C","3">>>>, <<<<"x">>, NaN>> >>) >>
      [] fp = P_aW3 ->
            << Sheet(S_Empty, <<N_SKU>>, << <<>> >>),
               Sheet(S_Memo, <<N_Notes>>, << <<C_dash, <<"-","-">>>> >>),
               Sheet(S_Parts, <<N_PartNo, N_ItemName>>,
                     << <<<<"B","1">>, <<"n","/","a">>, NaN, <<" ","b","1"," ">>>>,
                        <<<<"x">>, <<"y">>, <<"z">>, <<"w">>>> >>) >>

FailedToRead == <<"F","a","i","l","e","d">>

FileLists ==
    {fs \in UNION {[1..n -> Paths] : n \in 1..MaxFiles} : Injective(fs)}

Init ==
    /\ pc = "scan"
    /\ files \in FileLists
    /\ corrupt \in SUBSET Range(files)
    /\ only_across_workbooks \in BOOLEAN
    /\ sku_cols \in {NoList, Some(<<T_sku>>)}
    /\ patterns = NoList
    /\ fi = 1
    /\ details_rows = <<>> /\ sku_col_map = <<>> /\ read_errors = <<>>
    /\ presence_counts = <<>> /\ presence_bool = <<>>
    /\ dup_index = {} /\ details_dups = <<>>
    /\ IdleNorm /\ IdleDetect

\* a failed read that ends the scan instead of going on to the next workbook
ReadFailsAbort ==
    /\ pc = "scan" /\ fi <= Len(files)
    /\ files[fi] \in corrupt
    /\ read_errors' = dict_set(read_errors, files[fi], FailedToRead)
    /\ fi' = Len(files) + 1
    /\ UNCHANGED <<pc, details_rows, sku_col_map>>
    /\ UNCHANGED <<files, corrupt, only_across_workbooks, presence_counts,
                   presence_bool, dup_index, details_dups>>
    /\ UNCHANGED <<val, normalized, df, detected, sku_cols, patterns>>

\* lines 99-103: read_excel raises; the error is recorded, the loop continues
ReadFails ==
    /\ pc = "scan" /\ fi <= Len(files)
    /\ files[fi] \in corrupt
    /\ read_errors' = dict_set(read_errors, files[fi], FailedToRead)
    /\ fi' = fi + 1
    /\ UNCHANGED <<pc, details_rows, sku_col_map>>
    /\ UNCHANGED <<files, corrupt, only_across_workbooks, presence_counts,
                   presence_bool, dup_index, details_dups>>
    /\ UNCHANGED <<val, normalized, df, detected, sku_cols, patterns>>

\* lines 99-123: the workbook is read and every sheet of it is scanned
ScanWorkbook ==
    /\ pc = "scan" /\ fi <= Len(files)
    /\ files[fi] \notin corrupt
    /\ LET acc == scan_sheets([rows |-> details_rows, colmap |-> sku_col_map],
                              basename(files[fi]), read_excel(files[fi]),
                              sku_cols, patterns)
       IN /\ details_rows' = acc.rows
          /\ sku_col_map' = acc.colmap
    /\ fi' = fi + 1
    /\ UNCHANGED <<pc, read_errors>>
    /\ UNCHANGED <<files, corrupt, only_across_workbooks, presence_counts,
                   presence_bool, dup_index, details_dups>>
    /\ UNCHANGED <<val, normalized, df, detected, sku_cols, patterns>>

\* lines 125-141: the loop is over; both matrices are built and analyze returns
BuildPresence ==
    /\ pc = "scan" /\ fi > Len(files)
    /\ presence_counts' = crosstab(details_rows)
    /\ presence_bool' = bool_matrix(crosstab(details_rows))
    /\ pc' = "analyzed"
    /\ UNCHANGED <<files, corrupt, only_across_workbooks, fi, details_rows,
                   sku_col_map, read_errors, dup_index, details_dups>>
    /\ UNCHANGED <<val, normalized, df, detected, sku_cols, patterns>>

\* write_report, lines 152-175: with no rows only the Summary is written
WriteReport ==
    /\ pc = "analyzed"
    /\ IF details_rows = <<>>
       THEN UNCHANGED <<dup_index, details_dups>>
       ELSE /\ dup_index' = select_dup_index(presence_bool, only_across_workbooks)
            /\ details_dups' =
                   select_details(details_rows,
                       select_dup_index(presence_bool, only_across_workbooks))
    /\ pc' = "done"
    /\ UNCHANGED <<files, corrupt, only_across_workbooks, fi, details_rows,
                   sku_col_map, read_errors, presence_counts, presence_bool>>
    /\ UNCHANGED <<val, normalized, df, detected, sku_cols, patterns>>

Next == ReadFails \/ ScanWorkbook \/ BuildPresence \/ WriteReport

Spec == Init /\ [][Next]_vars

-----------------------------------------------------------------------------
(* Claims C1, C2, C3, C6, C9 *)

C_A2 == <<"A","2">>
C_B1 == <<"B","1">>

NoRows == [rows |-> <<>>, colmap |-> <<>>]

\* the Records one workbook yields when it is scanned alone
RowsOf(fp) ==
    scan_sheets(NoRows, basename(fp), read_excel(fp), sku_cols, patterns).rows

SkusOf(rows) == {rows[k].SKU : k \in 1..Len(rows)}

\* positions of the input workbooks in which the normalized SKU s was found
WorkbooksWith(s) ==
    {k \in 1..Len(files) : files[k] \notin corrupt /\ s \in SkusOf(RowsOf(files[k]))}

\* the SKUs of the Details rows (the rows of Counts_by_File and
\* Presence_by_File are the same SKUs, line 173)
DuplicateSet == SkusOf(details_dups)

\* C1: with only_across_workbooks true, a normalized SKU is in the duplicate
\* set if and only if it was found in at least two different input workbooks.
C1_AsStated ==
    (pc = "done" /\ only_across_workbooks) =>
        \A s \in DuplicateSet \cup UNION {SkusOf(RowsOf(files[k])) : k \in 1..Len(files)} :
            s \in DuplicateSet <=> Cardinality(WorkbooksWith(s)) >= 2

\* the scan of the readable workbooks alone, in input order
RECURSIVE ScanOf(_, _)
ScanOf(fs, acc) ==
    IF fs = <<>> THEN acc
    ELSE ScanOf(Tail(fs),
                scan_sheets(acc, basename(Head(fs)), read_excel(Head(fs)),
                            sku_cols, patterns))

WithoutFailing == SelectSeq(files, LAMBDA fp : fp \notin corrupt)

\* C2: a workbook that cannot be read adds a ReadError and leaves Records and
\* DetectedColumnSet unchanged, the scan goes on with the next workbook, and
\* the final Records, PresenceMatrix and DetectedColumnSet are those of a run
\* over the input list without the failing workbooks.
C2_FailureSkipsOnlyThatWorkbook ==
    /\ [][ (pc = "scan" /\ fi <= Len(files) /\ files[fi] \in corrupt) =>
              /\ files[fi] \in DOMAIN read_errors'
              /\ details_rows' = details_rows
              /\ sku_col_map' = sku_col_map
              /\ pc' = "scan" /\ fi' = fi + 1 ]_vars
    /\ [](pc \in {"analyzed", "done"} =>
              /\ details_rows = ScanOf(WithoutFailing, NoRows).rows
              /\ sku_col_map = ScanOf(WithoutFailing, NoRows).colmap
              /\ presence_counts = crosstab(ScanOf(WithoutFailing, NoRows).rows))

\* the first workbook failed and the second one still delivered its Records
C2_Witness ==
    /\ pc = "done"
    /\ Len(files) >= 2
    /\ files[1] \in corrupt /\ files[2] \notin corrupt
    /\ files[1] \in DOMAIN read_errors
    /\ \E k \in 1..Len(details_rows) : details_rows[k].File = basename(files[2])

\* the count stored for (s, w), zero when the pair is not materialized
CountAt(s, w) ==
    IF s \in DOMAIN presence_counts /\ w \in DOMAIN presence_counts[s]
    THEN presence_counts[s][w] ELSE 0

WorkbookNames == {basename(files[k]) : k \in 1..Len(files)}

\* C3: after analyze returns, the count stored for (s, w) is the number of
\* Records with SKU s and workbook w; s is a key of the PresenceMatrix iff a
\* Record has SKU s; the distinct-workbook-count of s is the number of
\* workbook names with a non-zero count and is at most the number of
\* workbooks scanned.
C3_RecordsMatchPresence ==
    pc \in {"analyzed", "done"} =>
        LET skus == SkusOf(details_rows) \cup DOMAIN presence_counts
                        \cup DOMAIN presence_bool
            names == WorkbookNames \cup {details_rows[k].File : k \in 1..Len(details_rows)}
        IN /\ \A s \in skus, w \in names :
                  CountAt(s, w) =
                      Cardinality({k \in 1..Len(details_rows) :
                                      details_rows[k].SKU = s /\ details_rows[k].File = w})
           /\ \A s \in skus :
                  /\ s \in DOMAIN presence_counts <=> s \in SkusOf(details_rows)
                  /\ s \in DOMAIN presence_bool <=> s \in DOMAIN presence_counts
           /\ \A s \in DOMAIN presence_bool :
                  /\ presence_bool[s].WorkbooksCount =
                         Cardinality({w \in names : CountAt(s, w) > 0})
                  /\ presence_bool[s].WorkbooksCount <= Len(WithoutFailing)

\* A1 occurs twice in W1.xlsx and once in W2.xlsx
C3_Witness ==
    /\ pc = "analyzed"
    /\ CountAt(C_A1, F_W1) = 2
    /\ CountAt(C_A1, F_W2) = 1
    /\ presence_bool[C_A1].WorkbooksCount = 2

IsPrefix(a, b) == Len(a) <= Len(b) /\ SubSeq(b, 1, Len(a)) = a

Extends(d, e) == \A k \in DOMAIN d : k \in DOMAIN e /\ e[k] = d[k]

\* C9: the workbooks are processed one after the other in input order, and
\* no step of the scan removes or changes a Record, a ReadError entry or a
\* DetectedColumnSet entry added before.
C9_AsStated ==
    [][ /\ fi' \in {fi, fi + 1}
        /\ IsPrefix(details_rows, details_rows')
        /\ Extends(read_errors, read_errors')
        /\ Extends(sku_col_map, sku_col_map') ]_vars

-----------------------------------------------------------------------------
(* Specification SpecReport: the end of analyze and write_report on a       *)
(* Record list drawn from RecordUniverse                                    *)

Rec(sku, file, sheet, rownumber) ==
    [SKU |-> sku, File |-> file, Sheet |-> sheet, Column |-> N_SKU,
     RowNumber |-> rownumber]

RecordUniverse ==
    { Rec(C_A1, F_W1, S_Memo, Row(2)), Rec(C_A1, F_W1, S_Memo, Row(3)),
      Rec(C_A1, F_W1, S_Memo, NoRowNumber),
      Rec(C_A1, F_W1, S_Parts, Row(2)), Rec(C_A1, F_W1, S_Parts, NoRowNumber),
      Rec(C_A1, F_W2, S_Memo, Row(2)), Rec(C_A1, F_W2, S_Memo, Row(3)),
      Rec(C_A1, F_W2, S_Parts, Row(2)),
      Rec(C_B1, F_W1, S_Memo, Row(2)), Rec(C_B1, F_W1, S_Memo, NoRowNumber),
      Rec(C_B1, F_W1, S_Parts, Row(3)),
      Rec(C_B1, F_W2, S_Memo, Row(2)) }

InitReport ==
    /\ pc = "scan"
    /\ files = <<>> /\ corrupt = {} /\ fi = 1
    /\ only_across_workbooks \in BOOLEAN
    /\ details_rows \in UNION {[1..n -> RecordUniverse] : n \in 0..MaxRecs}
    /\ sku_col_map = <<>> /\ read_errors = <<>>
    /\ presence_counts = <<>> /\ presence_bool = <<>>
    /\ dup_index = {} /\ details_dups = <<>>
    /\ IdleNorm /\ IdleDetect /\ IdleInputs

NextReport == BuildPresence \/ WriteReport

SpecReport == InitReport /\ [][NextReport]_vars

-----------------------------------------------------------------------------
(* Claim C4 *)

\* the SKUs that qualify under the policy flag, read off the Records
Qualifying ==
    IF only_across_workbooks
    THEN {s \in SkusOf(details_rows) :
             Cardinality({details_rows[k].File :
                             k \in {j \in 1..Len(details_rows) :
                                       details_rows[j].SKU = s}}) > 1}
    ELSE SkusOf(details_rows)

Occurrences(q, r) == Cardinality({k \in 1..Len(q) : q[k] = r})

\* x may stand directly before y in the Details rows
MayPrecede(x, y) ==
    IF x.SKU # y.SKU THEN str_lt(x.SKU, y.SKU)
    ELSE IF x.File # y.File THEN str_lt(x.File, y.File)
    ELSE IF x.Sheet # y.Sheet THEN str_lt(x.Sheet, y.Sheet)
    ELSE IF x.RowNumber.has /\ y.RowNumber.has
         THEN x.RowNumber.n <= y.RowNumber.n
    ELSE x.RowNumber.has \/ ~y.RowNumber.has

\* C4: for either policy flag the Details rows are exactly the Records whose
\* SKU qualifies, each as often as it occurs, ordered by SKU, then workbook
\* name, then sheet name, then row number, a Record without row number
\* behind those with one in the same (SKU, workbook, sheet) group.
C4_DetailsFilteredAndSorted ==
    pc = "done" =>
        /\ \A r \in Range(details_rows) \cup Range(details_dups) :
               Occurrences(details_dups, r) =
                   IF r.SKU \in Qualifying
                   THEN Occurrences(details_rows, r) ELSE 0
        /\ \A k \in 1..(Len(details_dups) - 1) :
               MayPrecede(details_dups[k], details_dups[k + 1])

\* three Records of one workbook given out of order: the two of sheet Memo
\* come first, the one without row number behind the one with row 3
C4_Witness ==
    /\ pc = "done"
    /\ details_rows = << Rec(C_A1, F_W1, S_Parts, Row(2)),
                         Rec(C_A1, F_W1, S_Memo, NoRowNumber),
                         Rec(C_A1, F_W1, S_Memo, Row(3)) >>
    /\ details_dups = << Rec(C_A1, F_W1, S_Memo, Row(3)),
                         Rec(C_A1, F_W1, S_Memo, NoRowNumber),
                         Rec(C_A1, F_W1, S_Parts, Row(2)) >>

====
